---- MODULE Spec2Model ----
(***************************************************************************)
(* Model of src/instagram-hashtag-search.py: InstagramHashtagSearcher.run  *)
(* and search_hashtag_for_user.  One action per stretch of code between    *)
(* two awaits; the page, the keyboard and the elements are the environment *)
(* and every call on them either returns or raises.                        *)
(*                                                                         *)
(* Python values that may be None, an int or a str in the same place       *)
(* (most_recent_date, post_count, element attributes) are tagged records:  *)
(* None, PyStr(s), PyInt(n).                                               *)
(***************************************************************************)
EXTENDS Integers, Sequences, FiniteSets, TLC

(* ------------------------------ bounds --------------------------------- *)

\* most elements one post-link selector returns
MaxFound == 2
\* largest --max-posts value tried (-1 and 0..MaxCap)
MaxCap == 2
\* longest token list the aggregation-only specification starts from
MaxTokens == 3
\* most posts found and largest --max-posts value the aggregation-only
\* specification starts from
MaxFoundAgg == 5
MaxCapAgg == 3

(* --------------------------- Python values ----------------------------- *)

None == [none |-> TRUE]
PyStr(s) == [str |-> s]
PyInt(n) == [int |-> n]

\* truthiness of an Optional[str]: None and "" are falsy
Truthy(v) == v # None /\ v # PyStr("")

(* ------------------------------ strings -------------------------------- *)

Char(s, pos) == SubSeq(s, pos, pos)

\* c in s, for a one-character c
Contains(s, c) == \E pos \in 1..Len(s) : Char(s, pos) = c

RECURSIVE Replace(_, _, _)
\* s.replace(c, r), for a one-character c
Replace(s, c, r) ==
    IF Len(s) = 0 THEN s
    ELSE (IF SubSeq(s, 1, 1) = c THEN r ELSE SubSeq(s, 1, 1))
             \o Replace(SubSeq(s, 2, Len(s)), c, r)

\* the least and the greatest number of a non-empty set of numbers
Least(S) == CHOOSE x \in S : \A y \in S : x <= y
Greatest(S) == CHOOSE x \in S : \A y \in S : x >= y

\* s.strip(), blanks being the only whitespace of the modelled texts
Strip(s) ==
    LET inked == {k \in 1..Len(s) : Char(s, k) # " "}
    IN  IF inked = {} THEN "" ELSE SubSeq(s, Least(inked), Greatest(inked))

Digits == "0123456789"
IsDigit(c) == \E k \in 1..10 : Char(Digits, k) = c
DigitVal(c) == (CHOOSE k \in 1..10 : Char(Digits, k) = c) - 1
AllDigits(s, a, b) == \A k \in a..b : IsDigit(Char(s, k))

\* the number written by the two digits s[a..a+1]
Num2(s, a) == 10 * DigitVal(Char(s, a)) + DigitVal(Char(s, a + 1))
\* the number written by the four digits s[a..a+3]
Num4(s, a) == 100 * Num2(s, a) + Num2(s, a + 2)

\* n as two digits ('%m', '%d', '%H', '%M', '%S')
Pad2(n) == Char(Digits, (n \div 10) + 1) \o Char(Digits, (n % 10) + 1)
\* n as four digits ('%Y')
Pad4(n) == Pad2(n \div 100) \o Pad2(n % 100)

(* ----------------------------- datetime -------------------------------- *)

IsLeap(y) == (y % 4 = 0 /\ y % 100 # 0) \/ y % 400 = 0

DaysInMonth(y, m) ==
    IF m = 2 THEN (IF IsLeap(y) THEN 29 ELSE 28)
    ELSE IF m \in {4, 6, 9, 11} THEN 30 ELSE 31

RECURSIVE DaysBeforeMonth(_, _)
DaysBeforeMonth(y, m) ==
    IF m = 1 THEN 0 ELSE DaysBeforeMonth(y, m - 1) + DaysInMonth(y, m - 1)

\* date.toordinal(): day 1 is 0001-01-01
ToOrdinal(y, m, d) ==
    365 * (y - 1) + ((y - 1) \div 4) - ((y - 1) \div 100) + ((y - 1) \div 400)
        + DaysBeforeMonth(y, m) + d

ValueError == [raised |-> "ValueError"]

\* datetime.fromisoformat(s) for the forms 'YYYY-MM-DD' (midnight),
\* 'YYYY-MM-DDTHH:MM:SS' and 'YYYY-MM-DDTHH:MM:SS+HH:MM' (or '-HH:MM');
\* every other text is a ValueError.  tz is None for a naive datetime, else
\* the offset in minutes.
fromisoformat(s) ==
    IF Len(s) \notin {10, 19, 25} THEN ValueError
    ELSE IF ~ ( /\ AllDigits(s, 1, 4) /\ Char(s, 5) = "-"
                /\ AllDigits(s, 6, 7) /\ Char(s, 8) = "-"
                /\ AllDigits(s, 9, 10) )
    THEN ValueError
    ELSE IF Len(s) > 10 /\ ~ ( /\ Char(s, 11) = "T"
                               /\ AllDigits(s, 12, 13) /\ Char(s, 14) = ":"
                               /\ AllDigits(s, 15, 16) /\ Char(s, 17) = ":"
                               /\ AllDigits(s, 18, 19) )
    THEN ValueError
    ELSE IF Len(s) = 25 /\ ~ ( /\ Char(s, 20) \in {"+", "-"}
                               /\ AllDigits(s, 21, 22) /\ Char(s, 23) = ":"
                               /\ AllDigits(s, 24, 25) )
    THEN ValueError
    ELSE LET y  == Num4(s, 1)
             mo == Num2(s, 6)
             d  == Num2(s, 9)
             h  == IF Len(s) > 10 THEN Num2(s, 12) ELSE 0
             mi == IF Len(s) > 10 THEN Num2(s, 15) ELSE 0
             se == IF Len(s) > 10 THEN Num2(s, 18) ELSE 0
             oh == IF Len(s) = 25 THEN Num2(s, 21) ELSE 0
             om == IF Len(s) = 25 THEN Num2(s, 24) ELSE 0
         IN  IF ~ ( /\ y >= 1 /\ mo \in 1..12 /\ d >= 1
                    /\ h < 24 /\ mi < 60 /\ se < 60 /\ oh < 24 /\ om < 60 )
             THEN ValueError
             ELSE IF d > DaysInMonth(y, mo) THEN ValueError
             ELSE [year |-> y, month |-> mo, day |-> d,
                   hour |-> h, minute |-> mi, second |-> se,
                   tz |-> IF Len(s) < 25 THEN None
                          ELSE PyInt((IF Char(s, 20) = "-" THEN -1 ELSE 1)
                                         * (60 * oh + om))]

\* dt.strftime('%Y-%m-%d %H:%M:%S'): the wall-clock fields, the offset dropped
strftime(dt) ==
    Pad4(dt.year) \o "-" \o Pad2(dt.month) \o "-" \o Pad2(dt.day) \o " "
        \o Pad2(dt.hour) \o ":" \o Pad2(dt.minute) \o ":" \o Pad2(dt.second)

\* the point on the time line two datetimes are compared by: <<day, second>>,
\* the wall clock of a naive datetime, the UTC instant of an aware one
Instant(dt) ==
    LET off == IF dt.tz = None THEN 0 ELSE 60 * dt.tz.int
        sec == 3600 * dt.hour + 60 * dt.minute + dt.second - off
        carry == IF sec < 0 THEN -1 ELSE IF sec >= 86400 THEN 1 ELSE 0
    IN  <<ToOrdinal(dt.year, dt.month, dt.day) + carry, sec - 86400 * carry>>

\* a > b on datetimes of the same kind
Later(a, b) ==
    LET x == Instant(a)
        y == Instant(b)
    IN  x[1] > y[1] \/ (x[1] = y[1] /\ x[2] > y[2])

\* comparing a naive with an aware datetime raises TypeError
Comparable(a, b) == (a.tz = None) <=> (b.tz = None)

(* ------------------------------ exceptions ----------------------------- *)

\* playwright.async_api.TimeoutError, the only class line 270 catches
TimeoutErr == [raised |-> "TimeoutError", msg |-> "Timeout 30000ms exceeded."]
\* any other playwright Error
TargetClosed == [raised |-> "Error", msg |-> "Target closed"]
\* what a call on the page, the keyboard or an element may raise
Raisable == {TimeoutErr, TargetClosed}
\* a call that did not raise
Returned == [returned |-> TRUE]
\* what max() raises on a naive and an aware datetime
TypeErrorCompare ==
    [raised |-> "TypeError",
     msg |-> "can't compare offset-naive and offset-aware datetimes"]

(* ------------------------------- results ------------------------------- *)

\* --hashtag
hashtag_base == "trip"
\* line 64
HashtagOf(username) == hashtag_base \o "_" \o username

NoPostsResult(username) ==
    [username |-> username, hashtag |-> "#" \o HashtagOf(username),
     post_count |-> PyInt(0), most_recent_date |-> None,
     status |-> "no_posts"]

\* NotAccessibleResult with the status of the declared-empty page
NotAccessibleResult_AsNoPosts(username) ==
    [username |-> username, hashtag |-> "#" \o HashtagOf(username),
     post_count |-> PyInt(0), most_recent_date |-> None,
     status |-> "no_posts"]

NotAccessibleResult(username) ==
    [username |-> username, hashtag |-> "#" \o HashtagOf(username),
     post_count |-> PyInt(0), most_recent_date |-> None,
     status |-> "posts_not_accessible"]

\* DatesNotFoundResult with the status misspelt
DatesNotFoundResult_Misspelt(username, posts_to_check) ==
    [username |-> username, hashtag |-> "#" \o HashtagOf(username),
     post_count |-> PyInt(Len(posts_to_check)), most_recent_date |-> None,
     status |-> "date_not_found"]

DatesNotFoundResult(username, posts_to_check) ==
    [username |-> username, hashtag |-> "#" \o HashtagOf(username),
     post_count |-> PyInt(Len(posts_to_check)), most_recent_date |-> None,
     status |-> "dates_not_found"]

\* SuccessResult that counts the inspected posts as post_count, as line 213 does
SuccessResult_InspectedCount(username, all_post_links, posts_to_check, all_dates, formatted_date) ==
    [username |-> username, hashtag |-> "#" \o HashtagOf(username),
     post_count |-> PyInt(Len(posts_to_check)),
     posts_checked |-> Len(posts_to_check),
     dates_found |-> Len(all_dates),
     most_recent_date |-> PyStr(formatted_date),
     status |-> "success"]

SuccessResult(username, all_post_links, posts_to_check, all_dates, formatted_date) ==
    [username |-> username, hashtag |-> "#" \o HashtagOf(username),
     post_count |-> PyInt(Len(all_post_links)),
     posts_checked |-> Len(posts_to_check),
     dates_found |-> Len(all_dates),
     most_recent_date |-> PyStr(formatted_date),
     status |-> "success"]

\* UnparsedResult that drops the token
UnparsedResult_NoDate(username, all_post_links, posts_to_check, all_dates, first_date) ==
    [username |-> username, hashtag |-> "#" \o HashtagOf(username),
     post_count |-> PyInt(Len(all_post_links)),
     posts_checked |-> Len(posts_to_check),
     dates_found |-> Len(all_dates),
     most_recent_date |-> None,
     status |-> "success_unparsed"]

UnparsedResult(username, all_post_links, posts_to_check, all_dates, first_date) ==
    [username |-> username, hashtag |-> "#" \o HashtagOf(username),
     post_count |-> PyInt(Len(all_post_links)),
     posts_checked |-> Len(posts_to_check),
     dates_found |-> Len(all_dates),
     most_recent_date |-> PyStr(first_date),
     status |-> "success_unparsed"]

ErrorResult(username, e) ==
    [username |-> username, hashtag |-> "#" \o HashtagOf(username),
     post_count |-> PyStr("error"), most_recent_date |-> None,
     status |-> "error: " \o e.msg]

\* TimeoutResult without its post_count
TimeoutResult_NoPostCount(username) ==
    [username |-> username, hashtag |-> "#" \o HashtagOf(username),
     most_recent_date |-> None,
     status |-> "timeout"]

TimeoutResult(username) ==
    [username |-> username, hashtag |-> "#" \o HashtagOf(username),
     post_count |-> PyStr("timeout"), most_recent_date |-> None,
     status |-> "timeout"]

\* OuterHandler without the clause of line 270: every exception is an error
OuterHandler_NoTimeoutClause(username, e) == ErrorResult(username, e)

\* the handlers of the outer try, lines 270-287
OuterHandler(username, e) ==
    IF e.raised = "TimeoutError" THEN TimeoutResult(username)
    ELSE ErrorResult(username, e)

(* ----------------------------- aggregation ----------------------------- *)

\* datetime.fromisoformat(date_str.replace('Z', '+00:00')), line 225
ParseToken(date_str) == fromisoformat(Replace(date_str, "Z", "+00:00"))

\* lines 220-229: the (parsed, date_str) pairs, in order, of the tokens that
\* hold a 'T' and that fromisoformat accepts; every other token is passed over
ParseDates(all_dates) ==
    LET kept == SelectSeq(all_dates,
                          LAMBDA date_str : /\ Contains(date_str, "T")
                                            /\ ParseToken(date_str) # ValueError)
    IN  [k \in 1..Len(kept) |->
            [parsed |-> ParseToken(kept[k]), date_str |-> kept[k]]]

RECURSIVE MaxFrom(_, _, _)
\* max(parsed_dates, key=lambda x: x[0]) from position k on, best being the
\* largest so far: a later pair replaces it only when strictly greater
MaxFrom(parsed_dates, k, best) ==
    IF k > Len(parsed_dates) THEN best
    ELSE IF ~ Comparable(parsed_dates[k].parsed, best.parsed) THEN TypeErrorCompare
    ELSE MaxFrom(parsed_dates, k + 1,
                 IF Later(parsed_dates[k].parsed, best.parsed)
                 THEN parsed_dates[k] ELSE best)

\* line 233
MostRecent(parsed_dates) == MaxFrom(parsed_dates, 2, parsed_dates[1])

\* Aggregation whose fallback takes the last token instead of the first
Aggregation_LastToken(username, all_post_links, posts_to_check, all_dates) ==
    IF all_dates = <<>> THEN DatesNotFoundResult(username, posts_to_check)
    ELSE LET parsed_dates == ParseDates(all_dates)
         IN  IF parsed_dates # <<>>
             THEN LET most_recent == MostRecent(parsed_dates)
                  IN  IF most_recent = TypeErrorCompare
                      THEN ErrorResult(username, most_recent)
                      ELSE SuccessResult(username, all_post_links, posts_to_check,
                                         all_dates, strftime(most_recent.parsed))
             ELSE UnparsedResult(username, all_post_links, posts_to_check,
                                 all_dates, all_dates[Len(all_dates)])

\* lines 207-268: what the function returns once the candidate loop is over
Aggregation(username, all_post_links, posts_to_check, all_dates) ==
    IF all_dates = <<>> THEN DatesNotFoundResult(username, posts_to_check)
    ELSE LET parsed_dates == ParseDates(all_dates)
         IN  IF parsed_dates # <<>>
             THEN LET most_recent == MostRecent(parsed_dates)
                  IN  IF most_recent = TypeErrorCompare
                      THEN ErrorResult(username, most_recent)
                      ELSE SuccessResult(username, all_post_links, posts_to_check,
                                         all_dates, strftime(most_recent.parsed))
             ELSE UnparsedResult(username, all_post_links, posts_to_check,
                                 all_dates, all_dates[1])

(* ------------------------- date extraction ----------------------------- *)

\* The expanded view of one opened post, as the probes see it:
\*   markers  the <time> elements in document order, each with its datetime
\*            attribute (None when it has none), its text content, whether
\*            it lies inside an <article> and inside an <a>, and whether
\*            reading it raises (a stale handle);
\*   raising  the date selectors whose query raises;
\*   labels   the texts of 'article a, article span', or the query raising.

\* line 138-143
date_selectors == <<"time[datetime]", "time", "article time", "a time">>

\* whether the CSS selector matches the marker
Matches(selector, m) ==
    CASE selector = "time[datetime]" -> m.datetime # None
      [] selector = "time"           -> TRUE
      [] selector = "article time"   -> m.in_article
      [] selector = "a time"         -> m.in_link

\* page.query_selector_all(selector) on a view whose query does not raise
SelectMarkers(selector, markers) ==
    SelectSeq(markers, LAMBDA m : Matches(selector, m))

\* lines 148-157: the loop over the time elements stops at the first one
\* whose read raises, or that has a truthy datetime attribute, or else a
\* non-blank text; raised when it stops on a raise
ScanMarkers(time_elements) ==
    LET Stops(k) ==
            \/ time_elements[k].stale
            \/ Truthy(time_elements[k].datetime)
            \/ /\ Truthy(time_elements[k].text)
               /\ Strip(time_elements[k].text.str) # ""
        stops == {k \in 1..Len(time_elements) : Stops(k)}
    IN  IF stops = {} THEN [raised |-> FALSE, post_date |-> None]
        ELSE LET time_element == time_elements[Least(stops)]
             IN  IF time_element.stale THEN [raised |-> TRUE, post_date |-> None]
                 ELSE IF Truthy(time_element.datetime)
                 THEN [raised |-> FALSE, post_date |-> time_element.datetime]
                 ELSE [raised |-> FALSE,
                       post_date |-> PyStr(Strip(time_element.text.str))]

\* lines 145-162: the loop over the date selectors stops at the first one
\* whose query and reads do not raise and give a post_date
TimeProbe(view) ==
    LET Found(s) == ScanMarkers(SelectMarkers(date_selectors[s], view.markers))
        Stops(s) ==
            /\ date_selectors[s] \notin view.raising
            /\ ~ Found(s).raised
            /\ Truthy(Found(s).post_date)
        stops == {s \in 1..Len(date_selectors) : Stops(s)}
    IN  IF stops = {} THEN None ELSE Found(Least(stops)).post_date

\* s[pos..pos+Len(p)-1] = p
At(s, pos, p) == pos + Len(p) - 1 <= Len(s) /\ SubSeq(s, pos, pos + Len(p) - 1) = p

MonthNames ==
    {"January", "February", "March", "April", "May", "June", "July",
     "August", "September", "October", "November", "December"}

\* line 169: a month name, one or more blanks, a digit
MatchMonthDay(text) ==
    \E name \in MonthNames : \E pos \in 1..Len(text) :
        /\ At(text, pos, name)
        /\ \E j \in (pos + Len(name) + 1)..Len(text) :
              /\ IsDigit(Char(text, j))
              /\ \A k \in (pos + Len(name))..(j - 1) : Char(text, k) = " "

\* line 170: a digit followed by one of w, d, h, m
MatchRelative(text) ==
    \E pos \in 1..(Len(text) - 1) :
        IsDigit(Char(text, pos)) /\ Char(text, pos + 1) \in {"w", "d", "h", "m"}

\* line 171: dddd-dd-dd
MatchIsoDate(text) ==
    \E pos \in 1..(Len(text) - 9) :
        /\ AllDigits(text, pos, pos + 3) /\ Char(text, pos + 4) = "-"
        /\ AllDigits(text, pos + 5, pos + 6) /\ Char(text, pos + 7) = "-"
        /\ AllDigits(text, pos + 8, pos + 9)

\* lines 178-181: re.search of any of the three patterns
MatchesDatePattern(text) ==
    MatchMonthDay(text) \/ MatchRelative(text) \/ MatchIsoDate(text)

\* lines 174-183: the first stripped text that matches a pattern
ScanLabels(texts) ==
    LET Stops(k) == Truthy(texts[k]) /\ MatchesDatePattern(Strip(texts[k].str))
        stops == {k \in 1..Len(texts) : Stops(k)}
    IN  IF stops = {} THEN None ELSE PyStr(Strip(texts[Least(stops)].str))

\* lines 165-185
PatternProbe(view) ==
    IF view.labels.raised THEN None ELSE ScanLabels(view.labels.texts)

\* lines 134-185: post_date after the probes of one opened post
ExtractDate(view) ==
    LET post_date == TimeProbe(view)
    IN  IF Truthy(post_date) THEN post_date ELSE PatternProbe(view)

\* the <time> elements the environment shows: with a datetime attribute
DatedMarkers ==
    {[datetime |-> PyStr("2025-05-20T10:00:00Z"), text |-> PyStr("2d"),
      in_article |-> TRUE, in_link |-> TRUE, stale |-> FALSE],
     [datetime |-> PyStr("2025-05-21T08:00:00"), text |-> None,
      in_article |-> FALSE, in_link |-> TRUE, stale |-> FALSE]}

\* ... with an empty one or none, or stale
OtherMarkers ==
    {[datetime |-> PyStr(""), text |-> PyStr(" 2d "),
      in_article |-> TRUE, in_link |-> FALSE, stale |-> FALSE],
     [datetime |-> None, text |-> PyStr(" 2d "),
      in_article |-> TRUE, in_link |-> TRUE, stale |-> FALSE],
     [datetime |-> None, text |-> PyStr("  "),
      in_article |-> TRUE, in_link |-> TRUE, stale |-> FALSE],
     [datetime |-> PyStr("2025-05-20T10:00:00Z"), text |-> PyStr("2d"),
      in_article |-> TRUE, in_link |-> TRUE, stale |-> TRUE]}

Markers == DatedMarkers \cup OtherMarkers

MarkerLists ==
    {<<>>} \cup {<<m>> : m \in Markers}
           \cup {<<m, n>> : m \in OtherMarkers, n \in DatedMarkers}

\* the texts of 'article a, article span', or the query raising
LabelOutcomes ==
    {[raised |-> TRUE, texts |-> <<>>],
     [raised |-> FALSE, texts |-> <<None, PyStr("3 likes"), PyStr(" 2d ")>>]}

RaisingSets == {{}, {"time[datetime]", "time", "article time", "a time"}}

Views == [markers : MarkerLists, raising : RaisingSets, labels : LabelOutcomes]

\* the post_date the probes end with, for every view
ProbeOutcomes == [shown \in Views |-> ExtractDate(shown)]

(* -------------------------------- state -------------------------------- *)

VARIABLES
    usernames,           \* run's argument
    max_posts_to_check,  \* run's argument (--max-posts)
    run_i,               \* run: the 1-based position of the for loop, line 405
    results,             \* self.results
    pc,                  \* where the program stands
    username,            \* search_hashtag_for_user's argument
    sel,                 \* position in post_link_selectors, line 98
    all_post_links,      \* line 97
    posts_to_check,      \* line 119
    i,                   \* position of the candidate loop, line 126
    all_dates,           \* line 123
    result,              \* the dict search_hashtag_for_user returns
    queried,             \* history: the post-link queries made and what each gave
    opened,              \* history: click attempts of this search
    overlay,             \* history: "closed", "opened" after a click attempt,
                         \* "close_attempted" after an Escape attempt
    nav,                 \* history: None, Returned once page.goto returned, or
                         \* what page.goto raised
    page_content,        \* line 77, None until it is read
    view,                \* history: the expanded view the probes of the
                         \* opened post read, None once Escape is pressed
    failed,              \* history: how many candidates' handler (line 197) ran
    summary,             \* what print_summary printed: the emoji of each user
    output_file,         \* the contents of --output, None until it is written
    interrupted_at       \* history: None, or where the run stood when the
                         \* operator interrupted it

vars == <<usernames, max_posts_to_check, run_i, results, pc, username, sel,
          all_post_links, posts_to_check, i, all_dates, result, queried,
          opened, overlay, nav, page_content, view, failed, summary,
          output_file, interrupted_at>>

\* what the run loop leaves alone while one search is going on
run_vars == <<usernames, max_posts_to_check, run_i, results, summary,
              output_file, interrupted_at>>

\* --users, without duplicates (line 573)
\* the lists run is started with: one user, two users
UsernameLists == {<<"alice">>, <<"alice", "bob">>}

\* lines 92-95
post_link_selectors == <<"article a[href*=\"/p/\"]", "main a[href*=\"/p/\"]">>

\* what page.content() may return
PageContents ==
    {"<main><span>No posts yet</span></main>",
     "<main><article><a href=\"/p/1/\">No posts yet</a></article></main>",
     "<main><article><a href=\"/p/1/\"></a></article></main>"}

\* p in s
Substring(s, p) == \E k \in 1..Len(s) : At(s, k, p)

Min(a, b) == IF a <= b THEN a ELSE b
Max(a, b) == IF a >= b THEN a ELSE b

\* seq[:n]
Slice(seq, n) ==
    IF n >= 0 THEN SubSeq(seq, 1, Min(n, Len(seq)))
    ELSE SubSeq(seq, 1, Max(0, Len(seq) + n))

\* the n elements a selector's query returns
Elements(selector, n) == [k \in 1..n |-> [selector |-> selector, nth |-> k]]

Init ==
    /\ usernames \in UsernameLists
    /\ max_posts_to_check \in {-1} \cup (0..MaxCap)
    /\ run_i = 1
    /\ results = <<>>
    /\ pc = "run_loop"
    /\ username = ""
    /\ sel = 1
    /\ all_post_links = <<>>
    /\ posts_to_check = <<>>
    /\ i = 1
    /\ all_dates = <<>>
    /\ result = None
    /\ queried = <<>>
    /\ opened = 0
    /\ overlay = "closed"
    /\ nav = None
    /\ page_content = None
    /\ view = None
    /\ failed = 0
    /\ summary = None
    /\ output_file = None
    /\ interrupted_at = None

(* --------------------------- search_hashtag_for_user ------------------- *)

\* a return statement of search_hashtag_for_user
Return(r) ==
    /\ result' = r
    /\ pc' = "returned"

\* Goto without the outer try: what page.goto raises leaves the function
Goto_NoHandler ==
    /\ pc = "goto"
    /\ \/ pc' = "wait_load" /\ nav' = Returned
       \/ \E e \in Raisable : pc' = "raised" /\ nav' = e
    /\ UNCHANGED <<run_vars, username, sel, all_post_links, posts_to_check, i,
                   all_dates, result, queried, opened, overlay, page_content,
                   view, failed>>

\* line 71: page.goto
Goto ==
    /\ pc = "goto"
    /\ \/ pc' = "wait_load" /\ nav' = Returned /\ UNCHANGED result
       \/ \E e \in Raisable : nav' = e /\ Return(OuterHandler(username, e))
    /\ UNCHANGED <<run_vars, username, sel, all_post_links, posts_to_check, i,
                   all_dates, queried, opened, overlay, page_content, view,
                   failed>>

\* line 74: page.wait_for_timeout(3000)
WaitLoad ==
    /\ pc = "wait_load"
    /\ \/ pc' = "content" /\ UNCHANGED result
       \/ \E e \in Raisable : Return(OuterHandler(username, e))
    /\ UNCHANGED <<run_vars, username, sel, all_post_links, posts_to_check, i,
                   all_dates, queried, opened, overlay, nav, page_content,
                   view, failed>>

\* ReadContent without the test of line 79: the locator always runs
ReadContent_NoAbsenceCheck ==
    /\ pc = "content"
    /\ \/ \E content \in PageContents :
             /\ page_content' = PyStr(content)
             /\ pc' = "locate" /\ UNCHANGED result
       \/ \E e \in Raisable :
             Return(OuterHandler(username, e)) /\ UNCHANGED page_content
    /\ UNCHANGED <<run_vars, username, sel, all_post_links, posts_to_check, i,
                   all_dates, queried, opened, overlay, nav, view, failed>>

\* lines 77-87: page.content() and the "No posts yet" test
ReadContent ==
    /\ pc = "content"
    /\ \/ \E content \in PageContents :
             /\ page_content' = PyStr(content)
             /\ IF Substring(content, "No posts yet")
                THEN Return(NoPostsResult(username))
                ELSE pc' = "locate" /\ UNCHANGED result
       \/ \E e \in Raisable :
             Return(OuterHandler(username, e)) /\ UNCHANGED page_content
    /\ UNCHANGED <<run_vars, username, sel, all_post_links, posts_to_check, i,
                   all_dates, queried, opened, overlay, nav, view, failed>>

\* LocateDone without the test of line 108
LocateDone_NoEmptyCheck(links) ==
    /\ all_post_links' = links
    /\ posts_to_check' = Slice(links, max_posts_to_check)
    /\ pc' = "post_loop"
    /\ UNCHANGED result

\* lines 108-123, reached when the selector loop is over with `links` found
LocateDone(links) ==
    /\ all_post_links' = links
    /\ IF links = <<>>
       THEN /\ Return(NotAccessibleResult(username))
            /\ UNCHANGED posts_to_check
       ELSE /\ posts_to_check' = Slice(links, max_posts_to_check)
            /\ pc' = "post_loop"
            /\ UNCHANGED result

\* lines 105-106 and 101: the query gave nothing (or raised), try the next
NextSelector ==
    IF sel < Len(post_link_selectors)
    THEN /\ sel' = sel + 1
         /\ UNCHANGED <<pc, result, all_post_links, posts_to_check>>
    ELSE /\ UNCHANGED sel
         /\ LocateDone(all_post_links)

\* QuerySelector without the break of line 104: the last match wins
QuerySelector_NoBreak ==
    /\ pc = "locate"
    /\ LET selector == post_link_selectors[sel]
       IN  \/ /\ queried' = Append(queried, [selector |-> selector,
                                             raised |-> TRUE, links |-> <<>>])
              /\ NextSelector
           \/ \E n \in 0..MaxFound :
                LET links == Elements(selector, n)
                IN  /\ queried' = Append(queried, [selector |-> selector,
                                                   raised |-> FALSE, links |-> links])
                    /\ IF links # <<>> /\ sel < Len(post_link_selectors)
                       THEN /\ sel' = sel + 1
                            /\ all_post_links' = links
                            /\ UNCHANGED <<pc, result, posts_to_check>>
                       ELSE IF links # <<>>
                       THEN UNCHANGED sel /\ LocateDone(links)
                       ELSE NextSelector
    /\ UNCHANGED <<run_vars, username, i, all_dates, opened, overlay, nav,
                   page_content, view, failed>>

\* lines 98-106: one page.query_selector_all(selector) of the selector loop
QuerySelector ==
    /\ pc = "locate"
    /\ LET selector == post_link_selectors[sel]
       IN  \/ /\ queried' = Append(queried, [selector |-> selector,
                                             raised |-> TRUE, links |-> <<>>])
              /\ NextSelector
           \/ \E n \in 0..MaxFound :
                LET links == Elements(selector, n)
                IN  /\ queried' = Append(queried, [selector |-> selector,
                                                   raised |-> FALSE, links |-> links])
                    /\ IF links # <<>>
                       THEN UNCHANGED sel /\ LocateDone(links)
                       ELSE NextSelector
    /\ UNCHANGED <<run_vars, username, i, all_dates, opened, overlay, nav,
                   page_content, view, failed>>

\* Click outside the try of line 127: what the click raises reaches line 260
Click_NoCandidateTry ==
    /\ pc = "post_loop"
    /\ i <= Len(posts_to_check)
    /\ opened' = opened + 1
    /\ overlay' = "opened"
    /\ \/ pc' = "wait_open" /\ UNCHANGED result
       \/ \E e \in Raisable : Return(ErrorResult(username, e))
    /\ UNCHANGED <<run_vars, username, sel, all_post_links, posts_to_check, i,
                   all_dates, queried, nav, page_content, view, failed>>

\* line 131: post_link.click() on the i-th candidate
Click ==
    /\ pc = "post_loop"
    /\ i <= Len(posts_to_check)
    /\ opened' = opened + 1
    /\ overlay' = "opened"
    /\ \/ pc' = "wait_open"
       \/ \E e \in Raisable : pc' = "handler"
    /\ UNCHANGED <<run_vars, username, sel, all_post_links, posts_to_check, i,
                   all_dates, result, queried, nav, page_content, view, failed>>

\* line 132: page.wait_for_timeout(2000)
WaitOpen ==
    /\ pc = "wait_open"
    /\ \/ pc' = "probe"
       \/ \E e \in Raisable : pc' = "handler"
    /\ UNCHANGED <<run_vars, username, sel, all_post_links, posts_to_check, i,
                   all_dates, result, queried, opened, overlay, nav,
                   page_content, view, failed>>

\* lines 134-191: the probes of the opened post; what they raise is swallowed
Probe ==
    /\ pc = "probe"
    /\ \E shown \in Views :
          LET post_date == ProbeOutcomes[shown]
          IN  /\ view' = shown
              /\ all_dates' = IF Truthy(post_date)
                              THEN Append(all_dates, post_date.str)
                              ELSE all_dates
    /\ pc' = "escape"
    /\ UNCHANGED <<run_vars, username, sel, all_post_links, posts_to_check, i,
                   result, queried, opened, overlay, nav, page_content, failed>>

\* line 194: page.keyboard.press('Escape')
Escape ==
    /\ pc = "escape"
    /\ overlay' = "close_attempted"
    /\ view' = None
    /\ \/ pc' = "wait_close"
       \/ \E e \in Raisable : pc' = "handler"
    /\ UNCHANGED <<run_vars, username, sel, all_post_links, posts_to_check, i,
                   all_dates, result, queried, opened, nav, page_content,
                   failed>>

\* line 195: page.wait_for_timeout(1000), then the next candidate
WaitClose ==
    /\ pc = "wait_close"
    /\ \/ pc' = "post_loop" /\ i' = i + 1
       \/ \E e \in Raisable : pc' = "handler" /\ UNCHANGED i
    /\ UNCHANGED <<run_vars, username, sel, all_post_links, posts_to_check,
                   all_dates, result, queried, opened, overlay, nav,
                   page_content, view, failed>>

\* CandidateHandler that only continues, without the Escape of line 201
CandidateHandler_NoEscape ==
    /\ pc = "handler"
    /\ failed' = failed + 1
    /\ i' = i + 1
    /\ pc' = "post_loop"
    /\ UNCHANGED <<run_vars, username, sel, all_post_links, posts_to_check,
                   all_dates, result, queried, opened, overlay, nav,
                   page_content, view>>

\* lines 197-205: the handler of one candidate: Escape again, whatever that
\* raises is swallowed, then the next candidate
CandidateHandler ==
    /\ pc = "handler"
    /\ overlay' = "close_attempted"
    /\ failed' = failed + 1
    /\ i' = i + 1
    /\ pc' = "post_loop"
    /\ UNCHANGED <<run_vars, username, sel, all_post_links, posts_to_check,
                   all_dates, result, queried, opened, nav, page_content, view>>

\* lines 207-268: the candidate loop is over
Aggregate ==
    /\ pc = "post_loop"
    /\ i > Len(posts_to_check)
    /\ Return(Aggregation(username, all_post_links, posts_to_check, all_dates))
    /\ UNCHANGED <<run_vars, username, sel, all_post_links, posts_to_check, i,
                   all_dates, queried, opened, overlay, nav, page_content,
                   view, failed>>

(* --------------------------------- run --------------------------------- *)

\* lines 405-407: the head of the for loop; line 417 when it is over
RunLoop ==
    /\ pc = "run_loop"
    /\ IF run_i <= Len(usernames)
       THEN /\ username' = usernames[run_i]
            /\ pc' = "goto"
       ELSE /\ pc' = "done"
            /\ UNCHANGED username
    /\ UNCHANGED <<run_vars, sel, all_post_links, posts_to_check, i, all_dates,
                   result, queried, opened, overlay, nav, page_content, view,
                   failed>>

\* lines 408-413: the result is stored; the locals of the search are gone
StoreResult ==
    /\ pc = "returned"
    /\ results' = IF result # None
                  THEN [u \in DOMAIN results \cup {username} |->
                           IF u = username THEN result ELSE results[u]]
                  ELSE results
    /\ IF run_i < Len(usernames)
       THEN pc' = "between" /\ UNCHANGED run_i
       ELSE pc' = "run_loop" /\ run_i' = run_i + 1
    /\ sel' = 1
    /\ all_post_links' = <<>>
    /\ posts_to_check' = <<>>
    /\ i' = 1
    /\ all_dates' = <<>>
    /\ result' = None
    /\ queried' = <<>>
    /\ opened' = 0
    /\ overlay' = "closed"
    /\ nav' = None
    /\ page_content' = None
    /\ view' = None
    /\ failed' = 0
    /\ UNCHANGED <<usernames, max_posts_to_check, username, summary,
                   output_file, interrupted_at>>

\* line 414: page.wait_for_timeout between two users; it is outside every
\* try, so what it raises leaves run()
BetweenWait ==
    /\ pc = "between"
    /\ \/ pc' = "run_loop" /\ run_i' = run_i + 1
       \/ \E e \in Raisable : pc' = "raised" /\ UNCHANGED run_i
    /\ UNCHANGED <<usernames, max_posts_to_check, results, username, sel,
                   all_post_links, posts_to_check, i, all_dates, result,
                   queried, opened, overlay, nav, page_content, view, failed,
                   summary, output_file, interrupted_at>>

(* --------------------------------- main -------------------------------- *)

\* the locals of run and of the search, as Init has them
search_vars == <<sel, all_post_links, posts_to_check, i, all_dates, result,
                 queried, opened, overlay, nav, page_content, view, failed>>

\* lines 417-421: browser.close() or page.context.close(); what it raises
\* leaves run()
CloseBrowser ==
    /\ pc = "done"
    /\ \/ pc' = "summary"
       \/ \E e \in Raisable : pc' = "raised"
    /\ UNCHANGED <<run_vars, username, search_vars>>

\* data.get("status", "").split(":")[0], line 444
SplitHead(status) ==
    LET colons == {k \in 1..Len(status) : Char(status, k) = ":"}
    IN  IF colons = {} THEN status ELSE SubSeq(status, 1, Least(colons) - 1)

\* lines 438-444: the dict of emoji and its default, the emoji by their names
status_emoji(status) ==
    LET key == SplitHead(status)
    IN  CASE key = "success"              -> "white_check_mark"
          [] key = "no_posts"             -> "mailbox_with_no_mail"
          [] key = "posts_not_accessible" -> "lock"
          [] key = "date_not_found"       -> "warning"
          [] key = "timeout"              -> "stopwatch"
          [] OTHER                        -> "x"

\* lines 431-454: what print_summary prints for self.results: for each user
\* the emoji and whether the two optional counts are printed
print_summary(res) ==
    [u \in DOMAIN res |->
        [emoji |-> status_emoji(res[u].status),
         posts_checked |-> "posts_checked" \in DOMAIN res[u],
         dates_found |-> "dates_found" \in DOMAIN res[u]]]

\* lines 425-429: json.dump(self.results, f)
save_results(res) == [json |-> res]

\* line 594
PrintSummary ==
    /\ pc = "summary"
    /\ summary' = print_summary(results)
    /\ pc' = "save"
    /\ UNCHANGED <<usernames, max_posts_to_check, run_i, results, output_file,
                   interrupted_at, username, search_vars>>

\* lines 597-599
SaveResults ==
    /\ pc = "save"
    /\ output_file' = save_results(results)
    /\ pc' = "exit"
    /\ UNCHANGED <<usernames, max_posts_to_check, run_i, results, summary,
                   interrupted_at, username, search_vars>>

\* lines 606-610: an exception that left run(): sys.exit(1), nothing is saved
FatalError ==
    /\ pc = "raised"
    /\ pc' = "exit_fatal"
    /\ UNCHANGED <<run_vars, username, search_vars>>

\* the positions of run(), where an interruption finds the program
RunPcs ==
    {"run_loop", "goto", "wait_load", "content", "locate", "post_loop",
     "wait_open", "probe", "escape", "wait_close", "handler", "returned",
     "between", "done"}

\* the positions at which run() is suspended in an await that no bare
\* except encloses (the awaits of the handler, lines 201-202, are enclosed
\* by the one of line 203, which swallows a cancellation as it swallows
\* everything: the loop goes on as CandidateHandler says)
AwaitPcs == RunPcs \ {"run_loop", "returned", "handler"}

\* lines 584-614: the operator's Ctrl-C while asyncio.run(main()) is inside
\* run().  The signal is delivered either while the coroutine's own code
\* runs, and KeyboardInterrupt is raised there and reaches line 601, or
\* while the event loop waits for the awaited call, and then the main task
\* is cancelled: CancelledError is raised at the await, is caught neither
\* by `except Exception` nor by `except KeyboardInterrupt`, and main() ends
\* without reaching line 601.  Either way the frames of run() are left.
Interrupt ==
    /\ pc \in RunPcs
    /\ interrupted_at' = PyStr(pc)
    /\ \/ pc' = "interrupted"
       \/ pc \in AwaitPcs /\ pc' = "cancelled"
    /\ sel' = 1
    /\ all_post_links' = <<>>
    /\ posts_to_check' = <<>>
    /\ i' = 1
    /\ all_dates' = <<>>
    /\ result' = None
    /\ queried' = <<>>
    /\ opened' = 0
    /\ overlay' = "closed"
    /\ nav' = None
    /\ page_content' = None
    /\ view' = None
    /\ failed' = 0
    /\ UNCHANGED <<usernames, max_posts_to_check, run_i, results, summary,
                   output_file, username>>

\* lines 601-605: the handler of KeyboardInterrupt
InterruptHandler ==
    /\ pc = "interrupted"
    /\ IF results # <<>>
       THEN /\ summary' = print_summary(results)
            /\ output_file' = save_results(results)
       ELSE UNCHANGED <<summary, output_file>>
    /\ pc' = "exit_interrupted"
    /\ UNCHANGED <<usernames, max_posts_to_check, run_i, results,
                   interrupted_at, username, search_vars>>

Next ==
    \/ RunLoop
    \/ Goto
    \/ WaitLoad
    \/ ReadContent
    \/ QuerySelector
    \/ Click
    \/ WaitOpen
    \/ Probe
    \/ Escape
    \/ WaitClose
    \/ CandidateHandler
    \/ Aggregate
    \/ StoreResult
    \/ BetweenWait
    \/ CloseBrowser
    \/ PrintSummary
    \/ SaveResults
    \/ FatalError
    \/ Interrupt
    \/ InterruptHandler

Spec == Init /\ [][Next]_vars

(* ------------------- the aggregation on its own ------------------------ *)

\* the date tokens the aggregation is tried on
TokenUniverse ==
    {"2025-05-20T10:00:00Z", "2025-05-20T12:00:00+02:00",
     "2025-05-22T09:00:00Z", "2025-05-21T08:00:00",
     "2d", "Today", "2025-05-23"}

RECURSIVE SeqsUpTo(_, _)
\* the sequences over S of length 0..n
SeqsUpTo(S, n) ==
    IF n = 0 THEN {<<>>}
    ELSE LET shorter == SeqsUpTo(S, n - 1)
         IN  shorter \cup {Append(q, x) : q \in {r \in shorter : Len(r) = n - 1}, x \in S}

\* search_hashtag_for_user at the end of its candidate loop (line 207), for
\* one user: the first selector found n posts, and the probes of the
\* inspected ones gave the tokens all_dates
InitAgg ==
    /\ usernames = <<"alice">>
    /\ max_posts_to_check \in {-1} \cup (0..MaxCapAgg)
    /\ run_i = 1
    /\ results = <<>>
    /\ pc = "post_loop"
    /\ username = "alice"
    /\ sel = 1
    /\ \E n \in 1..MaxFoundAgg :
          all_post_links = Elements(post_link_selectors[1], n)
    /\ posts_to_check = Slice(all_post_links, max_posts_to_check)
    /\ i = Len(posts_to_check) + 1
    /\ all_dates \in SeqsUpTo(TokenUniverse, Min(MaxTokens, Len(posts_to_check)))
    /\ result = None
    /\ queried = <<[selector |-> post_link_selectors[1], raised |-> FALSE,
                    links |-> all_post_links]>>
    /\ opened = Len(posts_to_check)
    /\ overlay = IF posts_to_check = <<>> THEN "closed" ELSE "close_attempted"
    /\ nav = Returned
    /\ page_content = PyStr("<main><article><a href=\"/p/1/\"></a></article></main>")
    /\ view = None
    /\ failed = 0
    /\ summary = None
    /\ output_file = None
    /\ interrupted_at = None

NextAgg ==
    \/ Aggregate
    \/ StoreResult
    \/ RunLoop

SpecAgg == InitAgg /\ [][NextAgg]_vars

(* -------------------------------- claims ------------------------------- *)

\* the positions inside search_hashtag_for_user
SearchPcs ==
    {"goto", "wait_load", "content", "locate", "post_loop", "wait_open",
     "probe", "escape", "wait_close", "handler"}

DatesFoundStatuses == {"success", "success_unparsed"}

DateIffDatesFound(r) ==
    (r.most_recent_date # None) <=> (r.status \in DatesFoundStatuses)

\* C1: in every result search_hashtag_for_user returns, and so in every
\* stored one, most_recent_date is not None exactly when the status is
\* 'success' or 'success_unparsed'.
C1_DateIffDatesFound ==
    /\ pc = "returned" => DateIffDatesFound(result)
    /\ \A u \in DOMAIN results : DateIffDatesFound(results[u])

\* a run that stored a timeout without a date and a success with one
C1_Witness ==
    /\ pc = "done"
    /\ DOMAIN results = {"alice", "bob"}
    /\ results["alice"].status = "timeout"
    /\ results["alice"].most_recent_date = None
    /\ results["bob"].status = "success"
    /\ results["bob"].most_recent_date = PyStr("2025-05-20 10:00:00")

StatusLiterals ==
    {"success", "success_unparsed", "no_posts", "posts_not_accessible",
     "dates_not_found", "timeout"}

\* s.startswith(p)
StartsWith(s, p) == Len(s) >= Len(p) /\ SubSeq(s, 1, Len(p)) = p

KnownStatus(status) ==
    status \in StatusLiterals \/ StartsWith(status, "error: ")

\* C2: the status of every returned and every stored result is one of the six
\* literal statuses or a string that begins with 'error: '.
C2_ClosedStatusSet ==
    /\ pc = "returned" => KnownStatus(result.status)
    /\ \A u \in DOMAIN results : KnownStatus(results[u].status)

\* a run that stored an 'error: ...' status and a literal one
C2_Witness ==
    /\ pc = "done"
    /\ DOMAIN results = {"alice", "bob"}
    /\ results["alice"].status
           = "error: can't compare offset-naive and offset-aware datetimes"
    /\ results["bob"].status = "dates_not_found"

\* a step from inside the search leads inside it or to its return, the
\* operator's interruption aside
StaysInSearch ==
    (pc \in SearchPcs /\ interrupted_at' = None)
    => pc' \in (SearchPcs \cup {"returned"})

\* a step from the return stores the returned result under the user's name
ResultIsStored ==
    (pc = "returned" /\ interrupted_at' = None)
    => /\ result # None
       /\ username \in DOMAIN results'
       /\ results'[username] = result

\* C3: whatever a call of one user's search raises, control stays inside the
\* search until it returns a result; the returned result is stored under the
\* user's name; and a run that reaches its end holds one entry for each
\* distinct name of the list.
C3_NoPropagation ==
    /\ [][StaysInSearch]_vars
    /\ [][ResultIsStored]_vars
    /\ [](pc = "done" =>
             DOMAIN results = {usernames[k] : k \in 1..Len(usernames)})

\* a finished run of two users whose first search ended in an exception
C3_Witness ==
    /\ pc = "done"
    /\ usernames = <<"alice", "bob">>
    /\ DOMAIN results = {"alice", "bob"}
    /\ results["alice"].status = "error: Target closed"
    /\ results["bob"].status = "success"

\* the token is tried as a timestamp and fromisoformat accepts it
IsTimestamp(token) == Contains(token, "T") /\ ParseToken(token) # ValueError

ParsedOf(token) == ParseToken(token)

\* the rearrangements of a sequence
PermutationsOf(seq) ==
    {[k \in 1..Len(seq) |-> seq[f[k]]] :
        f \in {g \in [1..Len(seq) -> 1..Len(seq)] :
                  \A a, b \in 1..Len(seq) : g[a] = g[b] => a = b}}

\* C4 (as claimed): a token list with at least one timestamp gives 'success'
\* with the canonical string of the greatest parsed instant, and the same
\* status and most_recent_date for every rearrangement of the list.
C4_Original ==
    (pc = "returned" /\ \E k \in 1..Len(all_dates) : IsTimestamp(all_dates[k]))
    => /\ result.status = "success"
       /\ \E k \in 1..Len(all_dates) :
             /\ IsTimestamp(all_dates[k])
             /\ result.most_recent_date = PyStr(strftime(ParsedOf(all_dates[k])))
             /\ \A j \in 1..Len(all_dates) :
                   IsTimestamp(all_dates[j])
                   => ~ Later(ParsedOf(all_dates[j]), ParsedOf(all_dates[k]))
       /\ \A other \in PermutationsOf(all_dates) :
             LET r == Aggregation(username, all_post_links, posts_to_check, other)
             IN  r.status = result.status
                 /\ r.most_recent_date = result.most_recent_date

\* C5: a non-empty token list none of whose tokens parses gives
\* 'success_unparsed' with most_recent_date the first token, as it is.
C5_FirstTokenVerbatim ==
    ( /\ pc = "returned"
      /\ all_dates # <<>>
      /\ \A k \in 1..Len(all_dates) : ~ IsTimestamp(all_dates[k]) )
    => /\ result.status = "success_unparsed"
       /\ result.most_recent_date = PyStr(all_dates[1])

\* two different unparseable tokens, one of them with a 'T', the first kept
C5_Witness ==
    /\ pc = "returned"
    /\ all_dates = <<"Today", "2d">>
    /\ result.status = "success_unparsed"
    /\ result.most_recent_date = PyStr("Today")

\* the locator ran and no selector gave an element
LocatorFoundNothing ==
    /\ Len(queried) = Len(post_link_selectors)
    /\ \A k \in 1..Len(queried) : queried[k].links = <<>>

\* C6 (as claimed): a result with no candidate found (post_count 0, or the
\* locator finding nothing) has status 'no_posts' and no date.
C6_Original ==
    (pc = "returned" /\ (result.post_count = PyInt(0) \/ LocatorFoundNothing))
    => result.status = "no_posts" /\ result.most_recent_date = None

\* C6 (amended): when the locator ran and found nothing the status is
\* 'posts_not_accessible' with no date; 'no_posts' is returned only without
\* the locator having run; and a result with post_count 0 has no date and
\* status 'no_posts', 'posts_not_accessible', or 'dates_not_found' when
\* candidates were found but the cap left none to inspect.
C6_ZeroFound ==
    pc = "returned"
    => /\ LocatorFoundNothing
          => /\ result.status = "posts_not_accessible"
             /\ result.post_count = PyInt(0)
             /\ result.most_recent_date = None
       /\ result.status = "no_posts"
          => queried = <<>> /\ result.post_count = PyInt(0)
       /\ result.post_count = PyInt(0)
          => /\ result.most_recent_date = None
             /\ \/ result.status \in {"no_posts", "posts_not_accessible"}
                \/ /\ result.status = "dates_not_found"
                   /\ all_post_links # <<>>
                   /\ posts_to_check = <<>>

\* both selectors returned no element and the result has post_count 0
C6_Witness ==
    /\ pc = "returned"
    /\ LocatorFoundNothing
    /\ \A k \in 1..Len(queried) : ~ queried[k].raised
    /\ result.post_count = PyInt(0)
    /\ result.status = "posts_not_accessible"

\* C7: when the page loaded without declaring absence and no selector gave an
\* element (a raising query counting as none), the result is
\* 'posts_not_accessible' with no date and post_count 0, and no candidate was
\* opened or probed.
C7_NotAccessible ==
    (pc = "returned" /\ LocatorFoundNothing)
    => /\ result.status = "posts_not_accessible"
       /\ result.most_recent_date = None
       /\ result.post_count = PyInt(0)
       /\ opened = 0
       /\ overlay = "closed"
       /\ all_dates = <<>>

\* the first query raised, the second returned nothing
C7_Witness ==
    /\ pc = "returned"
    /\ Len(queried) = 2
    /\ queried[1].raised
    /\ ~ queried[2].raised
    /\ queried[2].links = <<>>
    /\ result.status = "posts_not_accessible"
    /\ opened = 0

\* C8 (as claimed): candidates found but no token extracted gives
\* 'dates_not_found' with no date and post_count the number of candidates
\* the locator found.
C8_Original ==
    (pc = "returned" /\ all_post_links # <<>> /\ all_dates = <<>>)
    => /\ result.status = "dates_not_found"
       /\ result.most_recent_date = None
       /\ result.post_count = PyInt(Len(all_post_links))

\* C9: the selectors are queried in priority order, each at most once; every
\* query before the last one made gave no element (or raised); once the
\* selector loop is over the candidates are exactly the elements of the last
\* query made, and that query gave none only if it was the last selector's.
C9_FirstMatchWins ==
    pc \in SearchPcs \cup {"returned"}
    => /\ Len(queried) <= Len(post_link_selectors)
       /\ \A k \in 1..Len(queried) :
             /\ queried[k].selector = post_link_selectors[k]
             /\ queried[k].raised => queried[k].links = <<>>
             /\ k < Len(queried) => queried[k].links = <<>>
       /\ pc = "locate"
          => /\ all_post_links = <<>>
             /\ Len(queried) = sel - 1
             /\ \A k \in 1..Len(queried) : queried[k].links = <<>>
       /\ (pc # "locate" /\ queried # <<>>)
          => /\ all_post_links = queried[Len(queried)].links
             /\ all_post_links = <<>> => Len(queried) = Len(post_link_selectors)
             /\ \A k \in 1..Len(all_post_links) :
                   all_post_links[k].selector = queried[Len(queried)].selector

\* the first selector's query raised and the second one's elements are the
\* candidates
C9_Witness ==
    /\ pc = "post_loop"
    /\ Len(queried) = 2
    /\ queried[1].raised
    /\ Len(queried[2].links) = 2
    /\ all_post_links = queried[2].links

\* C10: whenever the next candidate is about to be opened or the result is
\* returned, an Escape has been attempted since the last click attempt.
C10_AlwaysClose ==
    pc \in {"post_loop", "returned"} => overlay # "opened"

\* two candidates were clicked and the last one's close was attempted
C10_Witness ==
    /\ pc = "post_loop"
    /\ opened = 2
    /\ i = 3
    /\ all_dates = <<>>
    /\ overlay = "close_attempted"

\* the non-empty datetime attributes of the view's time elements
AttributeValues(shown) ==
    {shown.markers[k].datetime.str :
        k \in {j \in 1..Len(shown.markers) : Truthy(shown.markers[j].datetime)}}

\* the non-blank stripped texts of the view's time elements
TextValues(shown) ==
    {Strip(shown.markers[k].text.str) :
        k \in {j \in 1..Len(shown.markers) :
                  /\ Truthy(shown.markers[j].text)
                  /\ Strip(shown.markers[j].text.str) # ""}}

\* no query and no read of the view raises
ReadsCleanly(shown) ==
    /\ shown.raising = {}
    /\ ~ shown.labels.raised
    /\ \A k \in 1..Len(shown.markers) : ~ shown.markers[k].stale

\* C11 (as claimed): after the probes of one opened post whose reads do not
\* raise, the token is a datetime attribute value whenever some time element
\* has a non-empty one; it is a time element's text only when none has; and
\* it comes from the links and labels only when the time elements gave
\* neither.
C11_Original ==
    (pc = "escape" /\ view # None /\ ReadsCleanly(view))
    => LET post_date == ExtractDate(view)
       IN  /\ Truthy(post_date) => all_dates[Len(all_dates)] = post_date.str
           /\ AttributeValues(view) # {}
              => Truthy(post_date) /\ post_date.str \in AttributeValues(view)
           /\ (AttributeValues(view) = {} /\ TextValues(view) # {})
              => Truthy(post_date) /\ post_date.str \in TextValues(view)
           /\ (AttributeValues(view) = {} /\ TextValues(view) = {})
              => post_date = PatternProbe(view)

\* the emoji print_summary gives a status it does not know
GenericFailure == "x"

\* C12 (as claimed): in what print_summary printed, every status that begins
\* with 'error:' has the emoji of the generic failure, and each of the six
\* literal statuses has an emoji of its own, which is neither the generic
\* one nor that of another literal status.
C12_Original ==
    summary # None
    => \A u \in DOMAIN summary :
          LET status == results[u].status
          IN  /\ StartsWith(status, "error:")
                 => summary[u].emoji = GenericFailure
              /\ status \in StatusLiterals
                 => /\ summary[u].emoji # GenericFailure
                    /\ \A other \in StatusLiterals \ {status} :
                          status_emoji(other) # summary[u].emoji

\* page.goto of this search raised
NavigationFailed == nav # None /\ nav # Returned

\* C13 (as claimed): whatever page.goto raises, a timeout or another error,
\* the result has status 'timeout' and no date.
C13_Original ==
    (pc = "returned" /\ NavigationFailed)
    => result.status = "timeout" /\ result.most_recent_date = None

\* the positions from the locator on
AfterContentPcs ==
    {"locate", "post_loop", "wait_open", "probe", "escape", "wait_close",
     "handler"}

\* a step from the locator on that returns does not return 'timeout'
NoLateTimeoutStatus ==
    (pc \in AfterContentPcs /\ pc' = "returned") => result'.status # "timeout"

\* when page.goto raised, the result is 'timeout' for a TimeoutError and
\* 'error: <message>' for any other error, with no date and nothing located
\* or opened
NavigationFailureResult ==
    (pc = "returned" /\ NavigationFailed)
    => /\ nav.raised = "TimeoutError" => result.status = "timeout"
       /\ nav.raised # "TimeoutError" => result.status = "error: " \o nav.msg
       /\ result.most_recent_date = None
       /\ queried = <<>>
       /\ opened = 0

\* C13 (amended): a page.goto that raises TimeoutError gives status 'timeout'
\* with no date; a page.goto that raises any other error gives status
\* 'error: <message>' with no date; and no step from the locator on (locate,
\* open, probe, close, aggregation), whatever its call raises, returns
\* status 'timeout'.
C13_NavigationFailure ==
    /\ []NavigationFailureResult
    /\ [][NoLateTimeoutStatus]_vars

\* the navigation timed out and the result says so
C13_Witness ==
    /\ pc = "returned"
    /\ nav = TimeoutErr
    /\ result.status = "timeout"
    /\ result.most_recent_date = None

\* C14: in every 'success' and 'success_unparsed' result post_count is the
\* number of posts the locator found, posts_checked the number of posts
\* inspected, which is min(found, --max-posts) when --max-posts >= 0, and
\* dates_found the number of tokens collected, so that
\* dates_found <= posts_checked <= post_count; and 5 posts found with
\* --max-posts 3 and the tokens "2025-05-20T10:00:00Z", "2d",
\* "2025-05-22T09:00:00Z" give 'success' with "2025-05-22 09:00:00",
\* dates_found 3, posts_checked 3, post_count 5.
C14_Counts ==
    (pc = "returned" /\ result.status \in DatesFoundStatuses)
    => /\ result.post_count = PyInt(Len(all_post_links))
       /\ result.posts_checked = Len(posts_to_check)
       /\ max_posts_to_check >= 0
          => result.posts_checked = Min(Len(all_post_links), max_posts_to_check)
       /\ result.dates_found = Len(all_dates)
       /\ result.dates_found <= result.posts_checked
       /\ result.posts_checked <= result.post_count.int
       /\ ( /\ Len(all_post_links) = 5
            /\ max_posts_to_check = 3
            /\ all_dates = <<"2025-05-20T10:00:00Z", "2d", "2025-05-22T09:00:00Z">> )
          => /\ result.status = "success"
             /\ result.most_recent_date = PyStr("2025-05-22 09:00:00")
             /\ result.dates_found = 3
             /\ result.posts_checked = 3
             /\ result.post_count = PyInt(5)

\* the scenario: 5 found, 3 inspected, the three tokens, the result returned
C14_Witness ==
    /\ pc = "returned"
    /\ username = "alice"
    /\ Len(all_post_links) = 5
    /\ max_posts_to_check = 3
    /\ all_dates = <<"2025-05-20T10:00:00Z", "2d", "2025-05-22T09:00:00Z">>
    /\ result.status = "success"
    /\ result.hashtag = "#trip_alice"

\* the positions inside the body of the candidate loop
CandidatePcs == {"wait_open", "probe", "escape", "wait_close", "handler"}

\* a is the beginning of b
IsPrefix(a, b) == Len(a) <= Len(b) /\ SubSeq(b, 1, Len(a)) = a

\* a step of the candidate loop, the operator's interruption aside: from
\* inside the body it leads to the body or to the head of the loop, from
\* the handler to the next candidate, and it keeps the tokens collected
CandidateStepIsLocal ==
    (interrupted_at' = None)
    => /\ pc \in CandidatePcs
          => /\ pc' \in CandidatePcs \cup {"post_loop"}
             /\ IsPrefix(all_dates, all_dates')
             /\ posts_to_check' = posts_to_check
       /\ pc = "handler"
          => /\ pc' = "post_loop"
             /\ i' = i + 1
             /\ all_dates' = all_dates
       /\ (pc = "post_loop" /\ i <= Len(posts_to_check))
          => /\ pc' \in CandidatePcs
             /\ all_dates' = all_dates

\* the statuses that carry what a call of the page raised
RaisedStatuses == {"timeout"} \cup {"error: " \o e.msg : e \in Raisable}

\* a search some candidate of which failed went through all its candidates
\* and its status is the one of the collected tokens
FailedCandidateResult ==
    (pc = "returned" /\ failed > 0)
    => /\ i = Len(posts_to_check) + 1
       /\ failed <= Len(posts_to_check)
       /\ Len(all_dates) <= Len(posts_to_check)
       /\ result.status \notin RaisedStatuses
       /\ all_dates = <<>> <=> result.status = "dates_not_found"
       /\ all_dates # <<>>
          => \/ /\ result.status \in DatesFoundStatuses
                /\ result.dates_found = Len(all_dates)
             \/ result.status = "error: " \o TypeErrorCompare.msg

\* C15: what opening or closing one candidate raises (the probes swallow
\* their own exceptions) leads to that candidate's handler and from there to
\* the next candidate, with the tokens collected so far kept; later
\* candidates are still probed; and the result of such a search is the one
\* its collected tokens give, never 'timeout' or the error raised.
C15_CandidateIsolation ==
    /\ [][CandidateStepIsLocal]_vars
    /\ []FailedCandidateResult

\* the first candidate failed and the probes of the second one gave a token
C15_Witness ==
    /\ pc = "escape"
    /\ failed = 1
    /\ i = 2
    /\ view # None
    /\ Truthy(ExtractDate(view))
    /\ all_dates = <<ExtractDate(view).str>>

\* the keys every result has, and the two only some have
BaseFields == {"username", "hashtag", "post_count", "most_recent_date", "status"}
CountFields == {"posts_checked", "dates_found"}

\* C16 (as claimed): every stored result has exactly the seven keys
\* username, hashtag, post_count, posts_checked, dates_found,
\* most_recent_date and status.
C16_Original ==
    \A u \in DOMAIN results : DOMAIN results[u] = BaseFields \cup CountFields

FieldSetOf(r) ==
    /\ DOMAIN r = IF r.status \in DatesFoundStatuses
                  THEN BaseFields \cup CountFields
                  ELSE BaseFields
    /\ r.post_count = PyStr("timeout") <=> r.status = "timeout"
    /\ r.post_count = PyStr("error") <=> StartsWith(r.status, "error: ")
    /\ (r.status \in StatusLiterals \ {"timeout"})
       => DOMAIN r.post_count = {"int"} /\ r.post_count.int >= 0

\* C16 (amended): every returned and every stored result has the keys
\* username, hashtag, post_count, most_recent_date and status; the keys
\* posts_checked and dates_found are there exactly in the 'success' and
\* 'success_unparsed' results; post_count is a number except in the
\* 'timeout' and 'error: ...' results, where it is the text 'timeout' or
\* 'error'.
C16_FieldSets ==
    /\ pc = "returned" => FieldSetOf(result)
    /\ \A u \in DOMAIN results :
          FieldSetOf(results[u]) /\ results[u].username = u

\* a finished run that stored a result of each kind
C16_Witness ==
    /\ pc = "done"
    /\ DOMAIN results = {"alice", "bob"}
    /\ results["alice"].status = "timeout"
    /\ DOMAIN results["alice"] = BaseFields
    /\ results["bob"].status = "success"
    /\ DOMAIN results["bob"] = BaseFields \cup CountFields

\* the program has ended after the operator's interruption
EndedInterrupted == pc \in {"exit_interrupted", "cancelled"}

\* the entries of the output file, none when it was not written
Written == IF output_file = None THEN <<>> ELSE output_file.json

\* the users whose search had returned and was stored when the run was
\* interrupted
FinishedUsers ==
    {usernames[k] : k \in 1..(IF interrupted_at = PyStr("between")
                                THEN run_i ELSE run_i - 1)}

\* C17 (as claimed): when the program has ended after an interruption that
\* found at least one result stored, the output file holds every stored
\* result, each with its status and of a user whose search had finished,
\* and nothing of the user whose search was going on.
C17_Original ==
    (EndedInterrupted /\ results # <<>>)
    => /\ output_file # None
       /\ Written = results
       /\ \A u \in DOMAIN Written :
             /\ u \in FinishedUsers
             /\ "status" \in DOMAIN Written[u]
             /\ KnownStatus(Written[u].status)
       /\ interrupted_at.str \in SearchPcs
          => usernames[run_i] \notin DOMAIN Written

\* a token with a 'T' that fromisoformat rejects
Malformed(token) == Contains(token, "T") /\ ParseToken(token) = ValueError

\* C18 (as claimed): a token without a 'T' is never parsed, so a list of
\* such tokens gives 'success_unparsed' with its first token; and a list
\* with a malformed 'T' token never gives an 'error' status: the token
\* counts in dates_found, the status is 'success' when some other token
\* parses and else 'success_unparsed' with the first token of the list.
C18_Original ==
    (pc = "returned" /\ all_dates # <<>>)
    => /\ (\A k \in 1..Len(all_dates) : ~ Contains(all_dates[k], "T"))
          => /\ result.status = "success_unparsed"
             /\ result.most_recent_date = PyStr(all_dates[1])
       /\ (\E k \in 1..Len(all_dates) : Malformed(all_dates[k]))
          => /\ ~ StartsWith(result.status, "error")
             /\ result.status \in DatesFoundStatuses
             /\ result.dates_found = Len(all_dates)
             /\ (\E j \in 1..Len(all_dates) : IsTimestamp(all_dates[j]))
                => result.status = "success"
             /\ (\A j \in 1..Len(all_dates) : ~ IsTimestamp(all_dates[j]))
                => /\ result.status = "success_unparsed"
                   /\ result.most_recent_date = PyStr(all_dates[1])

\* the page content this search loaded holds the absence text
AbsenceShown ==
    page_content # None /\ Substring(page_content.str, "No posts yet")

\* C19: the absence check precedes the locator.  Whenever the content the
\* search loaded contains 'No posts yet', the search has returned 'no_posts'
\* with post_count 0, no selector was queried and no candidate was opened,
\* whether or not the content holds post links; and a search returns
\* 'no_posts' only after loading such a content.
C19_AbsenceFirst ==
    /\ AbsenceShown
       => /\ pc = "returned"
          /\ result.status = "no_posts"
          /\ result.post_count = PyInt(0)
          /\ result.most_recent_date = None
          /\ queried = <<>>
          /\ opened = 0
    /\ (pc = "returned" /\ result.status = "no_posts") => AbsenceShown

\* the absence text on a page that also holds a post link
C19_Witness ==
    /\ pc = "returned"
    /\ result.status = "no_posts"
    /\ page_content # None
    /\ Substring(page_content.str, "No posts yet")
    /\ Substring(page_content.str, "<a href=\"/p/")
    /\ queried = <<>>

====
